---- MODULE Spec2Model ----
(***************************************************************************)
(* Model of the bot hosting platform of src/index.js: the process          *)
(* supervisor (start / stop / delete routes, the 'close' observer and the  *)
(* botProcesses table), the server process (spawn failures, the            *)
(* uncaughtException and SIGTERM handlers), the create route, the login    *)
(* code exchange (the verification command and POST /login), the per-bot   *)
(* file routes and the directory listing.                                  *)
(*                                                                         *)
(* Every route handler is an async function: it runs to its next await in  *)
(* one step, and other handlers and event callbacks run between its steps. *)
(* One action below is one such step.                                      *)
(***************************************************************************)
EXTENDS Integers, Sequences, FiniteSets, TLC

VARIABLES
    reqs,          \* the HTTP requests on /bot/:id/start and /bot/:id/stop
    procs,         \* the child processes, keyed by the request that spawned them
    botProcesses,  \* the in-memory handle table (bot id -> child process)
    bots,          \* the Bot collection (persisted records)
    pendingClose,  \* updates issued by 'close' observers, not yet applied
    now,           \* the wall clock read by new Date()
    fsFiles,       \* the file system: path -> content, for each existing file
    fileRes,       \* the answer of the last request on /bot/:id/file
    authSessions,  \* the AuthSession collection, in insertion order
    users,         \* the User collection, in insertion order
    ops,           \* the verification commands and the POST /login requests
    host,          \* the server process: up, or how it exited
    removedBots,   \* the bots whose record was deleted from the Bot collection
    botDocs,       \* the records that /bot/create inserted into the Bot collection
    creates,       \* the HTTP requests on /bot/create
    dirs,          \* the directories made by fs.ensureDir
    structure      \* the answer of the last getDirectoryStructure call

vars == <<reqs, procs, botProcesses, bots, pendingClose, now, fsFiles,
          fileRes, authSessions, users, ops,
          host, removedBots, botDocs, creates, dirs, structure>>
\* What the supervisor's steps leave alone, and what the other steps do.
brokerVars == <<fileRes, authSessions, users, ops>>
supervisorVars == <<reqs, procs, botProcesses, bots, pendingClose>>
\* What the start and stop routes, the login code exchange and the file routes
\* all leave alone.
createVars == <<botDocs, creates, dirs>>
platformVars == <<host, removedBots, createVars, structure>>

----------------------------------------------------------------------------
(* Bounds of the model. *)

\* Number of start / stop requests of one run.
MaxReqs == 3

Reqs == 1..MaxReqs
\* The registered bots of the run; each is owned by the session's user.
Workloads == {"b1"}
\* A child process is identified by the request that spawned it; 0 is no process.
NoProc == 0

----------------------------------------------------------------------------
(* The file system. A path is a sequence of names; bot.path is absolute.   *)

BotDir(w) == <<"bots", "u1", w>>

\* The files of a freshly created bot with inline code (index.js + package.json),
\* of a bot uploaded as other .js files, and of a bot uploaded without any .js.
SandboxInline(w) ==
    [p \in {BotDir(w) \o <<"index.js">>, BotDir(w) \o <<"package.json">>} |-> "c0"]
SandboxUploaded(w) ==
    [p \in {BotDir(w) \o <<"b.js">>, BotDir(w) \o <<"a.js">>,
            BotDir(w) \o <<"package.json">>} |-> "c0"]
SandboxNoScript(w) ==
    [p \in {BotDir(w) \o <<"readme.md">>, BotDir(w) \o <<"package.json">>} |-> "c0"]

\* A bot uploaded with two of the conventional entry files and another script.
SandboxTwoMains(w) ==
    [p \in {BotDir(w) \o <<"bot.js">>, BotDir(w) \o <<"app.js">>, BotDir(w) \o <<"a.js">>,
            BotDir(w) \o <<"package.json">>} |-> "c0"]

\* The file system of the runs of the file routes: the bot's files and a file
\* of the host outside every bot directory.
SandboxWithOutside(w) ==
    [p \in DOMAIN SandboxInline(w) \cup {<<"bots", "secret">>} |->
        IF p = <<"bots", "secret">> THEN "s3cret" ELSE "c0"]

\* name.endsWith('.js') over the names of the model.
EndsWithJs(name) == name \in {"index.js", "app.js", "main.js", "bot.js", "a.js", "b.js"}

possibleFiles == <<"index.js", "app.js", "main.js", "bot.js">>

IsPrefix(a, b) == Len(a) <= Len(b) /\ SubSeq(b, 1, Len(a)) = a

\* A directory: one that holds a file, or a bot directory or one above it
\* (the create route makes them with fs.ensureDir).
IsDirectory(fs, path) ==
    \/ \E f \in DOMAIN fs : Len(f) > Len(path) /\ IsPrefix(path, f)
    \/ \E w \in Workloads : IsPrefix(path, BotDir(w))

\* fs.existsSync(path).
ExistsSync(fs, path) == path \in DOMAIN fs \/ IsDirectory(fs, path)

\* path.join(base, rel): the segments of both, normalized: '.' is dropped and
\* '..' removes the segment before it (at the root of an absolute path there
\* is none to remove).
RECURSIVE NormalizeSegs(_, _)
NormalizeSegs(segs, acc) ==
    IF segs = <<>> THEN acc
    ELSE LET h == Head(segs)
         IN  IF h = "." THEN NormalizeSegs(Tail(segs), acc)
             ELSE IF h = ".."
                  THEN NormalizeSegs(Tail(segs),
                           IF acc = <<>> THEN acc ELSE SubSeq(acc, 1, Len(acc) - 1))
                  ELSE NormalizeSegs(Tail(segs), Append(acc, h))
PathJoin(base, rel) == NormalizeSegs(base \o rel, <<>>)

\* fs.readdir(dir): the names of the immediate children, in the order the
\* file system enumerates them, which the code does not control.
ReaddirNames(fs, dir) ==
    {f[Len(dir) + 1] : f \in {g \in DOMAIN fs :
        Len(g) > Len(dir) /\ SubSeq(g, 1, Len(dir)) = dir}}

\* findMainFile(botDir): the set of values it may return ({} stands for null).
FindMainFile(fs, botDir) ==
    LET hits == {i \in 1..Len(possibleFiles) :
                    ExistsSync(fs, botDir \o <<possibleFiles[i]>>)}
        js   == {n \in ReaddirNames(fs, botDir) : EndsWithJs(n)}
    IN  IF hits # {}
        THEN {botDir \o <<possibleFiles[CHOOSE i \in hits : \A j \in hits : i <= j]>>}
        ELSE {botDir \o <<n>> : n \in js}

----------------------------------------------------------------------------
(* The Bot collection. *)

\* new Bot({... status: 'stopped' ...}); 0 is an unset date.
NewBot == [status |-> "stopped", lastStarted |-> 0, lastStopped |-> 0]

\* The document after an update that sets the fields of upd.
ApplyUpdate(doc, upd) ==
    [f \in DOMAIN doc |-> IF f \in DOMAIN upd THEN upd[f] ELSE doc[f]]

\* The fields the start route assigns before bot.save().
StartUpdate(t) == [status |-> "running", lastStarted |-> t]
\* The fields the stop route assigns before bot.save().
StopUpdate(t) == [status |-> "stopped", lastStopped |-> t]
\* The update document of the 'close' observer.
CloseUpdate == [status |-> "stopped"]

----------------------------------------------------------------------------
(* The login codes. A string is a sequence of one-character strings.        *)

\* Number of verification commands and login requests of one run.
MaxAuthOps == 3
\* Number of commands and login requests of a run in which the clock advances.
MaxClockOps == 2
\* Last value of the clock (in minutes) in those runs.
MaxTime == 7
\* Longest relative path, in segments, of a file request.
MaxRelLen == 3

AuthOps == 1..MaxAuthOps
\* The Discord users that ask for a code.
Identities == {"d1", "d2"}

\* The validity the verification embed announces, in minutes.
TTL == 5

chars == <<"A", "B", "C", "D", "E", "F", "G", "H", "J", "K", "L", "M", "N", "P", "Q",
           "R", "S", "T", "U", "V", "W", "X", "Y", "Z", "2", "3", "4", "5", "6", "7",
           "8", "9">>
CodeLen == 6

\* generateCode(): CodeLen characters, each drawn from chars. The runs draw
\* from these two of its outcomes.
SampleCodes == {<<"A", "B", "2", "3", "C", "D">>, <<"X", "Y", "4", "5", "Z", "W">>}
GenerateCode ==
    {c \in SampleCodes :
        Len(c) = CodeLen /\ \A i \in 1..Len(c) : \E k \in 1..Len(chars) : chars[k] = c[i]}

LowerCase == <<"a", "b", "c", "d", "e", "f", "g", "h", "i", "j", "k", "l", "m", "n", "o",
               "p", "q", "r", "s", "t", "u", "v", "w", "x", "y", "z">>
UpperCase == <<"A", "B", "C", "D", "E", "F", "G", "H", "I", "J", "K", "L", "M", "N", "O",
               "P", "Q", "R", "S", "T", "U", "V", "W", "X", "Y", "Z">>

\* String.prototype.toUpperCase.
ToUpperCase(s) ==
    [i \in 1..Len(s) |->
        IF \E k \in 1..Len(LowerCase) : LowerCase[k] = s[i]
        THEN UpperCase[CHOOSE k \in 1..Len(LowerCase) : LowerCase[k] = s[i]]
        ELSE s[i]]

\* String.prototype.trim.
RECURSIVE Trim(_)
Trim(s) ==
    IF s = <<>> THEN s
    ELSE IF Head(s) = " " THEN Trim(Tail(s))
    ELSE IF s[Len(s)] = " " THEN Trim(SubSeq(s, 1, Len(s) - 1))
    ELSE s

\* The normalization without the trim.
UpperCaseOnly(input) == ToUpperCase(input)

\* code.trim().toUpperCase() of the login route.
CleanCode(input) == ToUpperCase(Trim(input))

\* What users type into the login form: a code as issued, the same code in
\* lower case with spaces around it, a code that was never issued, nothing.
LoginInputs ==
    GenerateCode
    \cup {<<" ">> \o [i \in 1..Len(c) |->
                        IF \E k \in 1..Len(UpperCase) : UpperCase[k] = c[i]
                        THEN LowerCase[CHOOSE k \in 1..Len(UpperCase) : UpperCase[k] = c[i]]
                        ELSE c[i]] \o <<" ">> : c \in GenerateCode}
    \cup {<<"Q", "Q", "Q", "Q", "Q", "Q">>, <<>>}

\* new AuthSession({code, discordId, ...}): unused, stamped with its creation time.
NewAuthSession(code, d, t) ==
    [code |-> code, discordId |-> d, used |-> FALSE, createdAt |-> t]
\* new User({discordId, ..., tier: 'free'}).
NewUser(d) == [discordId |-> d, tier |-> "free"]

\* A command or login request: input is what was typed, code the generated or
\* normalized code, seen the number of AuthSessions in the collection when its
\* first query ran, doc the AuthSession it inserted or found.
IdleOp == [kind |-> "none", pc |-> "idle", d |-> "d1", input |-> <<>>, code |-> <<>>,
           seen |-> 0, doc |-> 0, res |-> "none", at |-> 0]
NoFileRes == [op |-> "none", path |-> <<>>, outcome |-> "none", content |-> "none"]

----------------------------------------------------------------------------
(* Requests and processes. *)

\* A request on a bot: main is the file findMainFile returned to it, stamp the
\* date it assigned, target the process it spawned or signalled, fsError
\* whether its fs.remove failed, session the user id of the session it came in.
IdleReq == [kind |-> "none", w |-> "b1", pc |-> "idle", res |-> "none",
            main |-> <<>>, stamp |-> 0, target |-> NoProc, fsError |-> FALSE,
            session |-> "u1"]
NoProcess == [state |-> "none", sigterm |-> 0]

\* botProcess.kill('SIGTERM') on the handle p; sigterm counts the calls (the
\* signal reaches the process when it is still running).
Kill(ps, p) == [ps EXCEPT ![p].sigterm = @ + 1]

\* Number of create requests of one run.
MaxCreates == 2

Creates == 1..MaxCreates
\* The users that create bots; u1 owns the bots of Workloads.
Owners == {"u1", "u2"}
BotOwner(w) == "u1"
\* req.session.tier of a create request.
Tiers == {"free", "premium"}
\* The names typed into the create form; "" is a form without a name.
BotNames == {"b1", "b2", ""}
\* What comes with the form: inline code, an uploaded .js file, or neither.
Payloads == {"code", "file", "none"}

IdleCreate == [pc |-> "idle", owner |-> "u1", tier |-> "free", name |-> "b1",
               payload |-> "none", res |-> "none"]

\* The server is up, the bot is registered and stopped, nobody has asked for a
\* code yet.
InitSupervisor ==
    /\ reqs = [r \in Reqs |-> IdleReq]
    /\ procs = [p \in Reqs |-> NoProcess]
    /\ botProcesses = [w \in Workloads |-> NoProc]
    /\ bots = [w \in Workloads |-> NewBot]
    /\ pendingClose = {}
    /\ now = 1
InitBroker ==
    /\ fileRes = NoFileRes
    /\ authSessions = <<>>
    /\ users = <<>>
    /\ ops = [o \in AuthOps |-> IdleOp]
\* No bot was created or deleted since the server started, and nothing was listed.
InitPlatform ==
    /\ host = "up"
    /\ removedBots = {}
    /\ botDocs = <<>>
    /\ creates = [c \in Creates |-> IdleCreate]
    /\ dirs = {}
    /\ structure = <<>>

\* The bot directory holds index.js or no script at all; the directories
\* with several candidates for the entry file are those of InitEntry.
Init ==
    /\ InitSupervisor
    /\ InitBroker
    /\ InitPlatform
    /\ fsFiles \in {SandboxInline("b1"), SandboxNoScript("b1")}

\* Requests are numbered in their order of arrival.
Arrived(r) == \A q \in 1..(r - 1) : reqs[q].pc # "idle"

\* POST /bot/:id/start arrives and Bot.findOne returns the bot.
StartRequest(r, w) ==
    /\ reqs[r].pc = "idle" /\ Arrived(r)
    /\ reqs' = [reqs EXCEPT ![r] = [@ EXCEPT !.kind = "start", !.w = w, !.pc = "found"]]
    /\ UNCHANGED <<procs, botProcesses, bots, pendingClose, now, fsFiles, brokerVars, platformVars>>

\* StartCheck without the early answer: the route goes on to findMainFile
\* whether or not the table holds a handle.
StartCheckNoGuard(r) ==
    /\ reqs[r].kind = "start" /\ reqs[r].pc = "found"
    /\ reqs' = [reqs EXCEPT ![r] = [@ EXCEPT !.pc = "resolving"]]
    /\ UNCHANGED <<procs, botProcesses, bots, pendingClose, now, fsFiles, brokerVars, platformVars>>

\* The handle check; with a handle the route answers success at once,
\* without one it calls findMainFile and awaits it.
StartCheck(r) ==
    /\ reqs[r].kind = "start" /\ reqs[r].pc = "found"
    /\ IF botProcesses[reqs[r].w] # NoProc
       THEN reqs' = [reqs EXCEPT ![r] = [@ EXCEPT !.pc = "done", !.res = "already"]]
       ELSE reqs' = [reqs EXCEPT ![r] = [@ EXCEPT !.pc = "resolving"]]
    /\ UNCHANGED <<procs, botProcesses, bots, pendingClose, now, fsFiles, brokerVars, platformVars>>

\* findMainFile returned null: the route answers failure.
StartNoMain(r) ==
    /\ reqs[r].kind = "start" /\ reqs[r].pc = "resolving"
    /\ FindMainFile(fsFiles, BotDir(reqs[r].w)) = {}
    /\ reqs' = [reqs EXCEPT ![r] = [@ EXCEPT !.pc = "done", !.res = "nomain"]]
    /\ UNCHANGED <<procs, botProcesses, bots, pendingClose, now, fsFiles, brokerVars, platformVars>>

\* findMainFile returned a file: spawn, botProcesses.set, the observers,
\* bot.status = 'running', bot.lastStarted = new Date(), and bot.save() is issued.
StartSpawn(r) ==
    /\ reqs[r].kind = "start" /\ reqs[r].pc = "resolving"
    /\ \E m \in FindMainFile(fsFiles, BotDir(reqs[r].w)) :
        /\ procs' = [procs EXCEPT ![r] = [state |-> "live", sigterm |-> 0]]
        /\ botProcesses' = [botProcesses EXCEPT ![reqs[r].w] = r]
        /\ reqs' = [reqs EXCEPT ![r] = [@ EXCEPT !.pc = "saving", !.main = m,
                                                  !.stamp = now, !.target = r]]
    /\ UNCHANGED <<bots, pendingClose, now, fsFiles, brokerVars, platformVars>>

\* bot.save() of the start route completes and the route answers success.
StartSaved(r) ==
    /\ reqs[r].kind = "start" /\ reqs[r].pc = "saving"
    /\ bots' = [bots EXCEPT ![reqs[r].w] = ApplyUpdate(@, StartUpdate(reqs[r].stamp))]
    /\ reqs' = [reqs EXCEPT ![r] = [@ EXCEPT !.pc = "done", !.res = "started"]]
    /\ UNCHANGED <<procs, botProcesses, pendingClose, now, fsFiles, brokerVars, platformVars>>

\* POST /bot/:id/stop arrives and Bot.findOne returns the bot.
StopRequest(r, w) ==
    /\ reqs[r].pc = "idle" /\ Arrived(r)
    /\ reqs' = [reqs EXCEPT ![r] = [@ EXCEPT !.kind = "stop", !.w = w, !.pc = "found"]]
    /\ UNCHANGED <<procs, botProcesses, bots, pendingClose, now, fsFiles, brokerVars, platformVars>>

\* StopKill that treats an absent key as an error: it answers failure and
\* saves nothing.
StopKillStrict(r) ==
    /\ reqs[r].kind = "stop" /\ reqs[r].pc = "found"
    /\ LET w == reqs[r].w
           p == botProcesses[w]
       IN  IF p # NoProc
           THEN /\ procs' = Kill(procs, p)
                /\ botProcesses' = [botProcesses EXCEPT ![w] = NoProc]
                /\ reqs' = [reqs EXCEPT ![r] = [@ EXCEPT !.pc = "saving",
                                                          !.stamp = now, !.target = p]]
           ELSE /\ reqs' = [reqs EXCEPT ![r] = [@ EXCEPT !.pc = "done", !.res = "error"]]
                /\ UNCHANGED <<procs, botProcesses>>
    /\ UNCHANGED <<bots, pendingClose, now, fsFiles, brokerVars, platformVars>>

\* StopKill that signals the process and leaves the removal of the handle to
\* the 'close' observer.
StopKillNoDelete(r) ==
    /\ reqs[r].kind = "stop" /\ reqs[r].pc = "found"
    /\ LET w == reqs[r].w
           p == botProcesses[w]
       IN  /\ IF p # NoProc
              THEN procs' = Kill(procs, p)
              ELSE UNCHANGED procs
           /\ reqs' = [reqs EXCEPT ![r] = [@ EXCEPT !.pc = "saving", !.stamp = now,
                                                     !.target = p]]
    /\ UNCHANGED <<botProcesses, bots, pendingClose, now, fsFiles, brokerVars, platformVars>>

\* With a handle: kill('SIGTERM') and botProcesses.delete; then in either case
\* bot.status = 'stopped', bot.lastStopped = new Date(), and bot.save() is issued.
StopKill(r) ==
    /\ reqs[r].kind = "stop" /\ reqs[r].pc = "found"
    /\ LET w == reqs[r].w
           p == botProcesses[w]
       IN  /\ IF p # NoProc
              THEN /\ procs' = Kill(procs, p)
                   /\ botProcesses' = [botProcesses EXCEPT ![w] = NoProc]
              ELSE UNCHANGED <<procs, botProcesses>>
           /\ reqs' = [reqs EXCEPT ![r] = [@ EXCEPT !.pc = "saving", !.stamp = now,
                                                     !.target = p]]
    /\ UNCHANGED <<bots, pendingClose, now, fsFiles, brokerVars, platformVars>>

\* StopSaved that answers failure when the request found no process to stop.
StopSavedStrict(r) ==
    /\ reqs[r].kind = "stop" /\ reqs[r].pc = "saving"
    /\ bots' = [bots EXCEPT ![reqs[r].w] = ApplyUpdate(@, StopUpdate(reqs[r].stamp))]
    /\ reqs' = [reqs EXCEPT ![r] = [@ EXCEPT !.pc = "done",
                    !.res = IF reqs[r].target = NoProc THEN "error" ELSE "stopped"]]
    /\ UNCHANGED <<procs, botProcesses, pendingClose, now, fsFiles, brokerVars, platformVars>>

\* bot.save() of the stop route completes and the route answers success.
StopSaved(r) ==
    /\ reqs[r].kind = "stop" /\ reqs[r].pc = "saving"
    /\ bots' = [bots EXCEPT ![reqs[r].w] = ApplyUpdate(@, StopUpdate(reqs[r].stamp))]
    /\ reqs' = [reqs EXCEPT ![r] = [@ EXCEPT !.pc = "done", !.res = "stopped"]]
    /\ UNCHANGED <<procs, botProcesses, pendingClose, now, fsFiles, brokerVars, platformVars>>

\* The child process terminates (on its own, or after a signal).
ProcExit(p) ==
    /\ procs[p].state = "live"
    /\ procs' = [procs EXCEPT ![p].state = "exited"]
    /\ UNCHANGED <<reqs, botProcesses, bots, pendingClose, now, fsFiles, brokerVars, platformVars>>

\* The 'close' observer of process p: botProcesses.delete(bot id) and
\* Bot.findByIdAndUpdate(...).exec(), which is not awaited.
ProcClose(p) ==
    /\ procs[p].state = "exited"
    /\ procs' = [procs EXCEPT ![p].state = "closed"]
    /\ botProcesses' = [botProcesses EXCEPT ![reqs[p].w] = NoProc]
    /\ pendingClose' = pendingClose \cup {p}
    /\ UNCHANGED <<reqs, bots, now, fsFiles, brokerVars, platformVars>>

\* The update issued by the 'close' observer of p reaches the collection. It is
\* not awaited, and nothing orders it against a save that a route has issued
\* and still awaits: either may reach the collection first.
CloseUpdateApplied(p) ==
    /\ p \in pendingClose
    /\ bots' = [bots EXCEPT ![reqs[p].w] = ApplyUpdate(@, CloseUpdate)]
    /\ pendingClose' = pendingClose \ {p}
    /\ UNCHANGED <<reqs, procs, botProcesses, now, fsFiles, brokerVars, platformVars>>

\* The start and stop requests of a run and the life of the processes they
\* spawn, all within the same minute of the clock.
Next ==
    \/ \E r \in Reqs, w \in Workloads : StartRequest(r, w)
    \/ \E r \in Reqs : StartCheck(r)
    \/ \E r \in Reqs : StartNoMain(r)
    \/ \E r \in Reqs : StartSpawn(r)
    \/ \E r \in Reqs : StartSaved(r)
    \/ \E r \in Reqs, w \in Workloads : StopRequest(r, w)
    \/ \E r \in Reqs : StopKill(r)
    \/ \E r \in Reqs : StopSaved(r)
    \/ \E p \in Reqs : ProcExit(p)
    \/ \E p \in Reqs : ProcClose(p)
    \/ \E p \in Reqs : CloseUpdateApplied(p)

Spec == Init /\ [][Next]_vars

\* The start requests of a run on each kind of bot directory, and the life of
\* the processes they spawn.
InitEntry ==
    /\ InitSupervisor
    /\ InitBroker
    /\ InitPlatform
    /\ fsFiles \in {SandboxInline("b1"), SandboxUploaded("b1"), SandboxNoScript("b1"),
                    SandboxTwoMains("b1")}
NextEntry ==
    \/ \E r \in Reqs, w \in Workloads : StartRequest(r, w)
    \/ \E r \in Reqs : StartCheck(r)
    \/ \E r \in Reqs : StartNoMain(r)
    \/ \E r \in Reqs : StartSpawn(r)
    \/ \E r \in Reqs : StartSaved(r)
    \/ \E p \in Reqs : ProcExit(p)
    \/ \E p \in Reqs : ProcClose(p)
    \/ \E p \in Reqs : CloseUpdateApplied(p)

SpecEntry == InitEntry /\ [][NextEntry]_vars

----------------------------------------------------------------------------
(* The delete route. *)

Registered(w) == w \notin removedBots

\* POST /bot/:id/delete arrives and Bot.findOne returns the bot.
DeleteRequest(r, w) ==
    /\ reqs[r].pc = "idle" /\ Arrived(r)
    /\ Registered(w)
    /\ reqs' = [reqs EXCEPT ![r] = [@ EXCEPT !.kind = "delete", !.w = w, !.pc = "found"]]
    /\ UNCHANGED <<procs, botProcesses, bots, pendingClose, now, fsFiles, brokerVars,
                   platformVars>>

\* With a handle: kill('SIGTERM') and botProcesses.delete; then in either case
\* fs.remove(bot.path) is issued.
DeleteKill(r) ==
    /\ reqs[r].kind = "delete" /\ reqs[r].pc = "found"
    /\ LET w == reqs[r].w
           p == botProcesses[w]
       IN  /\ IF p # NoProc
              THEN /\ procs' = Kill(procs, p)
                   /\ botProcesses' = [botProcesses EXCEPT ![w] = NoProc]
              ELSE UNCHANGED <<procs, botProcesses>>
           /\ reqs' = [reqs EXCEPT ![r] = [@ EXCEPT !.pc = "removing", !.target = p]]
    /\ UNCHANGED <<bots, pendingClose, now, fsFiles, brokerVars, platformVars>>

\* DeleteRemoved that gives up when fs.remove fails: it answers failure and
\* leaves the record in the collection.
DeleteRemovedOrAbort(r) ==
    /\ reqs[r].kind = "delete" /\ reqs[r].pc = "removing"
    /\ \/ /\ fsFiles' = [f \in {g \in DOMAIN fsFiles : ~IsPrefix(BotDir(reqs[r].w), g)}
                             |-> fsFiles[f]]
          /\ reqs' = [reqs EXCEPT ![r] = [@ EXCEPT !.pc = "deleting"]]
       \/ /\ fsFiles' = fsFiles
          /\ reqs' = [reqs EXCEPT ![r] = [@ EXCEPT !.pc = "done", !.res = "error",
                                                    !.fsError = TRUE]]
    /\ UNCHANGED <<procs, botProcesses, bots, pendingClose, now, brokerVars, platformVars>>

\* fs.remove returns: the bot directory is gone, or the call failed, the
\* error is logged and the files stay; in either case Bot.findByIdAndDelete
\* is issued.
DeleteRemoved(r) ==
    /\ reqs[r].kind = "delete" /\ reqs[r].pc = "removing"
    /\ \/ /\ fsFiles' = [f \in {g \in DOMAIN fsFiles : ~IsPrefix(BotDir(reqs[r].w), g)}
                             |-> fsFiles[f]]
          /\ reqs' = [reqs EXCEPT ![r] = [@ EXCEPT !.pc = "deleting"]]
       \/ /\ fsFiles' = fsFiles
          /\ reqs' = [reqs EXCEPT ![r] = [@ EXCEPT !.pc = "deleting", !.fsError = TRUE]]
    /\ UNCHANGED <<procs, botProcesses, bots, pendingClose, now, brokerVars, platformVars>>

\* Bot.findByIdAndDelete returns and the route answers success.
DeleteDone(r) ==
    /\ reqs[r].kind = "delete" /\ reqs[r].pc = "deleting"
    /\ removedBots' = removedBots \cup {reqs[r].w}
    /\ reqs' = [reqs EXCEPT ![r] = [@ EXCEPT !.pc = "done", !.res = "deleted"]]
    /\ UNCHANGED <<procs, botProcesses, bots, pendingClose, now, fsFiles, brokerVars,
                   host, createVars, structure>>

\* bot.save() of a start route on a bot whose record was deleted meanwhile:
\* no document matches, save rejects and the route answers failure.
SaveOnRemoved(r) ==
    /\ reqs[r].kind = "start" /\ reqs[r].pc = "saving"
    /\ ~Registered(reqs[r].w)
    /\ reqs' = [reqs EXCEPT ![r] = [@ EXCEPT !.pc = "done", !.res = "error"]]
    /\ UNCHANGED <<procs, botProcesses, bots, pendingClose, now, fsFiles, brokerVars,
                   platformVars>>

\* The update of a 'close' observer on a bot whose record was deleted: it
\* matches no document.
CloseUpdateOnRemoved(p) ==
    /\ p \in pendingClose
    /\ ~Registered(reqs[p].w)
    /\ pendingClose' = pendingClose \ {p}
    /\ UNCHANGED <<reqs, procs, botProcesses, bots, now, fsFiles, brokerVars, platformVars>>

\* The start and delete requests of a run on one bot.
NextDelete ==
    \/ \E r \in Reqs, w \in Workloads : Registered(w) /\ StartRequest(r, w)
    \/ \E r \in Reqs : StartCheck(r)
    \/ \E r \in Reqs : StartNoMain(r)
    \/ \E r \in Reqs : StartSpawn(r)
    \/ \E r \in Reqs : Registered(reqs[r].w) /\ StartSaved(r)
    \/ \E r \in Reqs : SaveOnRemoved(r)
    \/ \E p \in Reqs : ProcExit(p)
    \/ \E p \in Reqs : ProcClose(p)
    \/ \E p \in Reqs : Registered(reqs[p].w) /\ CloseUpdateApplied(p)
    \/ \E p \in Reqs : CloseUpdateOnRemoved(p)
    \/ \E r \in Reqs, w \in Workloads : DeleteRequest(r, w)
    \/ \E r \in Reqs : DeleteKill(r)
    \/ \E r \in Reqs : DeleteRemoved(r)
    \/ \E r \in Reqs : DeleteDone(r)

InitDelete ==
    /\ InitSupervisor
    /\ InitBroker
    /\ InitPlatform
    /\ fsFiles = SandboxInline("b1")

SpecDelete == InitDelete /\ [][NextDelete]_vars

----------------------------------------------------------------------------
(* The server process: spawn failures, the uncaughtException handler and    *)
(* the SIGTERM handler.                                                     *)

\* The registered bots of the runs in which the server exits.
HostWorkloads == {"b1", "b2"}

\* spawn throws (an error that child_process reports synchronously): nothing
\* was registered or assigned, the catch of the route answers failure.
StartSpawnThrows(r) ==
    /\ reqs[r].kind = "start" /\ reqs[r].pc = "resolving"
    /\ \E m \in FindMainFile(fsFiles, BotDir(reqs[r].w)) :
        /\ procs' = [procs EXCEPT ![r] = [state |-> "failed", sigterm |-> 0]]
        /\ reqs' = [reqs EXCEPT ![r] = [@ EXCEPT !.pc = "done", !.res = "error",
                                                  !.main = m]]
    /\ UNCHANGED <<botProcesses, bots, pendingClose, now, fsFiles, brokerVars,
                   platformVars>>

\* spawn returns a child that could not be started (ENOENT, EAGAIN, ...): the
\* route registers it and issues bot.save(); the child then emits 'error',
\* which has no listener, before any other callback runs, and the
\* uncaughtException handler ends the server with process.exit(1). The
\* request is never answered and the save never leaves the process.
StartSpawnErrors(r) ==
    /\ reqs[r].kind = "start" /\ reqs[r].pc = "resolving"
    /\ \E m \in FindMainFile(fsFiles, BotDir(reqs[r].w)) :
        /\ procs' = [procs EXCEPT ![r] = [state |-> "failed", sigterm |-> 0]]
        /\ botProcesses' = [botProcesses EXCEPT ![reqs[r].w] = r]
        /\ reqs' = [reqs EXCEPT ![r] = [@ EXCEPT !.pc = "saving", !.main = m,
                                                  !.stamp = now, !.target = r]]
    /\ host' = "crashed"
    /\ UNCHANGED <<bots, pendingClose, now, fsFiles, brokerVars, removedBots,
                   createVars, structure>>

\* The loop of the SIGTERM handler that signals only the first entry.
KillFirst(ps, table, ws) ==
    IF \E w \in ws : table[w] # NoProc
    THEN Kill(ps, table[CHOOSE w \in ws : table[w] # NoProc])
    ELSE ps

\* botProcesses.forEach(process => process.kill('SIGTERM')) over the entries
\* of the bots ws.
RECURSIVE KillAll(_, _, _)
KillAll(ps, table, ws) ==
    IF ws = {} THEN ps
    ELSE LET w == CHOOSE x \in ws : TRUE
         IN  KillAll(IF table[w] # NoProc THEN Kill(ps, table[w]) ELSE ps,
                     table, ws \ {w})

\* The SIGTERM handler: every entry of the table is signalled, then
\* process.exit(0).
Shutdown ==
    /\ host = "up"
    /\ procs' = KillAll(procs, botProcesses, DOMAIN botProcesses)
    /\ host' = "stopped"
    /\ UNCHANGED <<reqs, botProcesses, bots, pendingClose, now, fsFiles, brokerVars,
                   removedBots, createVars, structure>>

InitHost ==
    /\ reqs = [r \in Reqs |-> IdleReq]
    /\ procs = [p \in Reqs |-> NoProcess]
    /\ botProcesses = [w \in HostWorkloads |-> NoProc]
    /\ bots = [w \in HostWorkloads |-> NewBot]
    /\ pendingClose = {}
    /\ now = 1
    /\ InitBroker
    /\ InitPlatform
    /\ fsFiles = [p \in DOMAIN SandboxInline("b1") \cup DOMAIN SandboxInline("b2") |-> "c0"]

\* The start requests of a run on two bots while the server is up, the life
\* of the processes they spawn, and the two ways in which the server exits.
NextHost ==
    \/ \E r \in Reqs, w \in HostWorkloads : host = "up" /\ StartRequest(r, w)
    \/ \E r \in Reqs : host = "up" /\ StartCheck(r)
    \/ \E r \in Reqs : host = "up" /\ StartSpawn(r)
    \/ \E r \in Reqs : host = "up" /\ StartSpawnThrows(r)
    \/ \E r \in Reqs : host = "up" /\ StartSpawnErrors(r)
    \/ \E r \in Reqs : host = "up" /\ StartSaved(r)
    \/ \E p \in Reqs : host = "up" /\ ProcExit(p)
    \/ \E p \in Reqs : host = "up" /\ ProcClose(p)
    \/ \E p \in Reqs : host = "up" /\ CloseUpdateApplied(p)
    \/ Shutdown

SpecHost == InitHost /\ [][NextHost]_vars

----------------------------------------------------------------------------
(* The login code exchange. *)

\* Commands and login requests are numbered in their order of arrival.
Called(o) == \A q \in 1..(o - 1) : ops[q].pc # "idle"

\* IssueInvalidate without the updateMany: the earlier codes of d stay unused.
IssueKeepsOlderCodes(o, d) ==
    /\ ops[o].pc = "idle" /\ Called(o)
    /\ \E c \in GenerateCode :
        ops' = [ops EXCEPT ![o] = [@ EXCEPT !.kind = "issue", !.pc = "inserting",
                                            !.d = d, !.code = c, !.at = now,
                                            !.seen = Len(authSessions)]]
    /\ UNCHANGED <<supervisorVars, now, fsFiles, fileRes, authSessions, users, platformVars>>

\* The verification command of user d: generateCode(), then
\* AuthSession.updateMany marks every unused code of d used, and the new
\* AuthSession is constructed.
IssueInvalidate(o, d) ==
    /\ ops[o].pc = "idle" /\ Called(o)
    /\ \E c \in GenerateCode :
        ops' = [ops EXCEPT ![o] = [@ EXCEPT !.kind = "issue", !.pc = "inserting",
                                            !.d = d, !.code = c, !.at = now,
                                            !.seen = Len(authSessions)]]
    /\ authSessions' = [i \in 1..Len(authSessions) |->
                          IF authSessions[i].discordId = d /\ ~authSessions[i].used
                          THEN [authSessions[i] EXCEPT !.used = TRUE]
                          ELSE authSessions[i]]
    /\ UNCHANGED <<supervisorVars, now, fsFiles, fileRes, users, platformVars>>

\* authSession.save() of the verification command completes; the code is sent.
IssueSaved(o) ==
    /\ ops[o].kind = "issue" /\ ops[o].pc = "inserting"
    /\ authSessions' = Append(authSessions,
                              NewAuthSession(ops[o].code, ops[o].d, ops[o].at))
    /\ ops' = [ops EXCEPT ![o] = [@ EXCEPT !.pc = "done", !.res = "issued",
                                          !.doc = Len(authSessions) + 1]]
    /\ UNCHANGED <<supervisorVars, now, fsFiles, fileRes, users, platformVars>>

\* The documents that match {code: cleanCode, used: false}.
FindUnused(cleanCode) ==
    {i \in 1..Len(authSessions) :
        authSessions[i].code = cleanCode /\ ~authSessions[i].used}

\* POST /login with the typed code: the empty check, the normalization and
\* AuthSession.findOne({code, used: false}), which returns one of the matches.
RedeemFind(o, input) ==
    /\ ops[o].pc = "idle" /\ Called(o)
    /\ IF input = <<>>
       THEN ops' = [ops EXCEPT ![o] = [@ EXCEPT !.kind = "redeem", !.pc = "done",
                                                !.res = "empty", !.at = now]]
       ELSE LET cleanCode == CleanCode(input)
                matches == FindUnused(cleanCode)
                arrived == [ops[o] EXCEPT !.kind = "redeem", !.input = input,
                                          !.code = cleanCode, !.at = now,
                                          !.seen = Len(authSessions)]
            IN  IF matches = {}
                THEN ops' = [ops EXCEPT ![o] = [arrived EXCEPT !.pc = "done",
                                                               !.res = "notfound"]]
                ELSE \E i \in matches :
                        ops' = [ops EXCEPT ![o] = [arrived EXCEPT !.pc = "user", !.doc = i]]
    /\ UNCHANGED <<supervisorVars, now, fsFiles, fileRes, authSessions, users, platformVars>>

\* User.findOne({discordId}) returns: an existing user is kept, otherwise a
\* new one is constructed and its save is issued.
RedeemUser(o) ==
    /\ ops[o].kind = "redeem" /\ ops[o].pc = "user"
    /\ LET d == authSessions[ops[o].doc].discordId
       IN  IF \E u \in 1..Len(users) : users[u].discordId = d
           THEN ops' = [ops EXCEPT ![o] = [@ EXCEPT !.pc = "marking"]]
           ELSE ops' = [ops EXCEPT ![o] = [@ EXCEPT !.pc = "savingUser"]]
    /\ UNCHANGED <<supervisorVars, now, fsFiles, fileRes, authSessions, users, platformVars>>

\* user.save() completes; authSession.used = true and its save is issued.
RedeemUserSaved(o) ==
    /\ ops[o].kind = "redeem" /\ ops[o].pc = "savingUser"
    /\ users' = Append(users, NewUser(authSessions[ops[o].doc].discordId))
    /\ ops' = [ops EXCEPT ![o] = [@ EXCEPT !.pc = "marking"]]
    /\ UNCHANGED <<supervisorVars, now, fsFiles, fileRes, authSessions, platformVars>>

\* authSession.save() completes; the session is bound to the user of the code
\* and the route redirects to the dashboard.
RedeemMarked(o) ==
    /\ ops[o].kind = "redeem" /\ ops[o].pc = "marking"
    /\ authSessions' = [authSessions EXCEPT ![ops[o].doc].used = TRUE]
    /\ ops' = [ops EXCEPT ![o] = [@ EXCEPT !.pc = "done", !.res = "ok",
                                          !.d = authSessions[ops[o].doc].discordId]]
    /\ UNCHANGED <<supervisorVars, now, fsFiles, fileRes, users, platformVars>>

\* A minute passes.
AuthTick ==
    /\ now < MaxTime
    /\ now' = now + 1
    /\ UNCHANGED <<supervisorVars, fsFiles, fileRes, authSessions, users, ops, platformVars>>

InitAuth ==
    /\ InitSupervisor
    /\ InitBroker
    /\ InitPlatform
    /\ fsFiles = SandboxInline("b1")

\* The commands and login requests of a run, all within the same minute.
NextAuth ==
    \/ \E o \in AuthOps, d \in Identities : IssueInvalidate(o, d)
    \/ \E o \in AuthOps : IssueSaved(o)
    \/ \E o \in AuthOps, input \in LoginInputs : RedeemFind(o, input)
    \/ \E o \in AuthOps : RedeemUser(o)
    \/ \E o \in AuthOps : RedeemUserSaved(o)
    \/ \E o \in AuthOps : RedeemMarked(o)

SpecAuth == InitAuth /\ [][NextAuth]_vars

\* Fewer commands and login requests, spread over the minutes of the clock.
ClockOps == 1..MaxClockOps
NextAuthClock ==
    \/ \E o \in ClockOps, d \in Identities : IssueInvalidate(o, d)
    \/ \E o \in ClockOps : IssueSaved(o)
    \/ \E o \in ClockOps, input \in LoginInputs : RedeemFind(o, input)
    \/ \E o \in ClockOps : RedeemUser(o)
    \/ \E o \in ClockOps : RedeemUserSaved(o)
    \/ \E o \in ClockOps : RedeemMarked(o)
    \/ AuthTick

SpecAuthClock == InitAuth /\ [][NextAuthClock]_vars

----------------------------------------------------------------------------
(* The file routes of a bot. *)

FileSegs == {"..", "secret", "index.js"}
RelPaths == UNION {[1..n -> FileSegs] : n \in 1..MaxRelLen}
\* What a file request writes.
Contents == {"c1"}

\* GET /bot/:id/file: path.join, the existsSync check and fs.readFile; reading
\* a directory throws and the route answers 500.
ReadFileRoute(w, rel) ==
    /\ LET fullPath == PathJoin(BotDir(w), rel)
       IN  fileRes' =
             IF ~ExistsSync(fsFiles, fullPath)
             THEN [op |-> "read", path |-> fullPath, outcome |-> "notfound", content |-> "none"]
             ELSE IF fullPath \notin DOMAIN fsFiles
             THEN [op |-> "read", path |-> fullPath, outcome |-> "error", content |-> "none"]
             ELSE [op |-> "read", path |-> fullPath, outcome |-> "ok",
                   content |-> fsFiles[fullPath]]
    /\ UNCHANGED <<supervisorVars, now, fsFiles, authSessions, users, ops, platformVars>>

\* POST /bot/:id/file: path.join and fs.writeFile, which creates or replaces
\* the file; it throws on a directory and when the parent directory is
\* missing, and the route answers 500.
WriteFileRoute(w, rel, content) ==
    /\ LET fullPath == PathJoin(BotDir(w), rel)
           writable ==
               /\ fullPath # <<>>
               /\ ~IsDirectory(fsFiles, fullPath)
               /\ IsDirectory(fsFiles, SubSeq(fullPath, 1, Len(fullPath) - 1))
       IN  IF writable
           THEN /\ fsFiles' = [p \in DOMAIN fsFiles \cup {fullPath} |->
                                 IF p = fullPath THEN content ELSE fsFiles[p]]
                /\ fileRes' = [op |-> "write", path |-> fullPath, outcome |-> "ok",
                               content |-> "none"]
           ELSE /\ fsFiles' = fsFiles
                /\ fileRes' = [op |-> "write", path |-> fullPath, outcome |-> "error",
                               content |-> "none"]
    /\ UNCHANGED <<supervisorVars, now, authSessions, users, ops, platformVars>>

InitFile ==
    /\ InitSupervisor
    /\ InitBroker
    /\ InitPlatform
    /\ fsFiles = SandboxWithOutside("b1")

NextFile ==
    \/ \E w \in Workloads, rel \in RelPaths : ReadFileRoute(w, rel)
    \/ \E w \in Workloads, rel \in RelPaths, c \in Contents : WriteFileRoute(w, rel, c)

SpecFile == InitFile /\ [][NextFile]_vars

----------------------------------------------------------------------------
(* The bot routes in the sessions of several users. *)

MaxSessionReqs == 2
SessionReqs == 1..MaxSessionReqs
BotRoutes == {"start", "stop", "delete"}
SessionRelPaths == {<<"index.js">>, <<"notes">>}

\* Bot.findOne without the owner in the filter.
FindById(userId, w) == Registered(w)

\* Bot.findOne({_id: req.params.id, owner: req.session.userId}) returns a bot.
FindOne(userId, w) == Registered(w) /\ BotOwner(w) = userId

\* POST /bot/:id/start, /stop or /delete arrives in a session of userId:
\* Bot.findOne returns the bot, or null and the route answers not found.
BotRequest(r, userId, route, w) ==
    /\ reqs[r].pc = "idle" /\ Arrived(r)
    /\ reqs' = [reqs EXCEPT ![r] =
                   [@ EXCEPT !.kind = route, !.w = w, !.session = userId,
                             !.pc = IF FindOne(userId, w) THEN "found" ELSE "done",
                             !.res = IF FindOne(userId, w) THEN "none" ELSE "notfound"]]
    /\ UNCHANGED <<procs, botProcesses, bots, pendingClose, now, fsFiles, brokerVars,
                   platformVars>>

\* GET /bot/:id/file in a session of userId: without a bot the route answers
\* 404, with one it reads as ReadFileRoute does.
SessionReadFile(r, userId, w, rel) ==
    /\ reqs[r].pc = "idle" /\ Arrived(r)
    /\ IF FindOne(userId, w)
       THEN LET fullPath == PathJoin(BotDir(w), rel)
                outcome == IF ~ExistsSync(fsFiles, fullPath) THEN "missing"
                           ELSE IF fullPath \notin DOMAIN fsFiles THEN "error"
                           ELSE "ok"
            IN  /\ fileRes' = [op |-> "read", path |-> fullPath,
                               outcome |-> IF outcome = "missing" THEN "notfound"
                                           ELSE outcome,
                               content |-> IF outcome = "ok" THEN fsFiles[fullPath]
                                           ELSE "none"]
                /\ reqs' = [reqs EXCEPT ![r] =
                               [@ EXCEPT !.kind = "read", !.w = w, !.session = userId,
                                         !.pc = "done", !.res = outcome]]
       ELSE /\ fileRes' = fileRes
            /\ reqs' = [reqs EXCEPT ![r] =
                           [@ EXCEPT !.kind = "read", !.w = w, !.session = userId,
                                     !.pc = "done", !.res = "notfound"]]
    /\ UNCHANGED <<procs, botProcesses, bots, pendingClose, now, fsFiles, authSessions,
                   users, ops, platformVars>>

\* POST /bot/:id/file in a session of userId: without a bot the route answers
\* 404, with one it writes as WriteFileRoute does.
SessionWriteFile(r, userId, w, rel, content) ==
    /\ reqs[r].pc = "idle" /\ Arrived(r)
    /\ IF FindOne(userId, w)
       THEN LET fullPath == PathJoin(BotDir(w), rel)
                writable ==
                    /\ fullPath # <<>>
                    /\ ~IsDirectory(fsFiles, fullPath)
                    /\ IsDirectory(fsFiles, SubSeq(fullPath, 1, Len(fullPath) - 1))
            IN  /\ fsFiles' = IF writable
                              THEN [p \in DOMAIN fsFiles \cup {fullPath} |->
                                      IF p = fullPath THEN content ELSE fsFiles[p]]
                              ELSE fsFiles
                /\ fileRes' = [op |-> "write", path |-> fullPath,
                               outcome |-> IF writable THEN "ok" ELSE "error",
                               content |-> "none"]
                /\ reqs' = [reqs EXCEPT ![r] =
                               [@ EXCEPT !.kind = "write", !.w = w, !.session = userId,
                                         !.pc = "done",
                                         !.res = IF writable THEN "ok" ELSE "error"]]
       ELSE /\ UNCHANGED <<fsFiles, fileRes>>
            /\ reqs' = [reqs EXCEPT ![r] =
                           [@ EXCEPT !.kind = "write", !.w = w, !.session = userId,
                                     !.pc = "done", !.res = "notfound"]]
    /\ UNCHANGED <<procs, botProcesses, bots, pendingClose, now, authSessions, users, ops,
                   platformVars>>

\* bot.save() of a stop route on a bot whose record was deleted meanwhile:
\* no document matches, save rejects and the route answers failure.
StopSaveOnRemoved(r) ==
    /\ reqs[r].kind = "stop" /\ reqs[r].pc = "saving"
    /\ ~Registered(reqs[r].w)
    /\ reqs' = [reqs EXCEPT ![r] = [@ EXCEPT !.pc = "done", !.res = "error"]]
    /\ UNCHANGED <<procs, botProcesses, bots, pendingClose, now, fsFiles, brokerVars,
                   platformVars>>

InitSession ==
    /\ InitSupervisor
    /\ InitBroker
    /\ InitPlatform
    /\ fsFiles = SandboxInline("b1")

\* The requests of a run on the bot of u1, in sessions of u1 and of u2.
NextSession ==
    \/ \E r \in SessionReqs, userId \in Owners, route \in BotRoutes, w \in Workloads :
          BotRequest(r, userId, route, w)
    \/ \E r \in SessionReqs, userId \in Owners, w \in Workloads,
          rel \in SessionRelPaths : SessionReadFile(r, userId, w, rel)
    \/ \E r \in SessionReqs, userId \in Owners, w \in Workloads,
          rel \in SessionRelPaths, c \in Contents : SessionWriteFile(r, userId, w, rel, c)
    \/ \E r \in SessionReqs : StartCheck(r)
    \/ \E r \in SessionReqs : StartNoMain(r)
    \/ \E r \in SessionReqs : StartSpawn(r)
    \/ \E r \in SessionReqs : Registered(reqs[r].w) /\ StartSaved(r)
    \/ \E r \in SessionReqs : SaveOnRemoved(r)
    \/ \E r \in SessionReqs : StopKill(r)
    \/ \E r \in SessionReqs : Registered(reqs[r].w) /\ StopSaved(r)
    \/ \E r \in SessionReqs : StopSaveOnRemoved(r)
    \/ \E r \in SessionReqs : DeleteKill(r)
    \/ \E r \in SessionReqs : DeleteRemoved(r)
    \/ \E r \in SessionReqs : DeleteDone(r)
    \/ \E p \in SessionReqs : ProcExit(p)
    \/ \E p \in SessionReqs : ProcClose(p)
    \/ \E p \in SessionReqs : Registered(reqs[p].w) /\ CloseUpdateApplied(p)
    \/ \E p \in SessionReqs : CloseUpdateOnRemoved(p)

SpecSession == InitSession /\ [][NextSession]_vars

----------------------------------------------------------------------------
(* The directory listing. The characters of a name decide its place.       *)

\* The characters of the file names of the model.
Chars(name) ==
    CASE name = "index.js" -> <<"i", "n", "d", "e", "x", ".", "j", "s">>
      [] name = "app.js" -> <<"a", "p", "p", ".", "j", "s">>
      [] name = "main.js" -> <<"m", "a", "i", "n", ".", "j", "s">>
      [] name = "bot.js" -> <<"b", "o", "t", ".", "j", "s">>
      [] name = "a.js" -> <<"a", ".", "j", "s">>
      [] name = "b.js" -> <<"b", ".", "j", "s">>
      [] name = "x.js" -> <<"x", ".", "j", "s">>
      [] name = "package.json" -> <<"p", "a", "c", "k", "a", "g", "e", ".", "j", "s", "o", "n">>
      [] name = "readme.md" -> <<"r", "e", "a", "d", "m", "e", ".", "m", "d">>
      [] name = "a.txt" -> <<"a", ".", "t", "x", "t">>
      [] name = "b.txt" -> <<"b", ".", "t", "x", "t">>
      [] name = "B.txt" -> <<"B", ".", "t", "x", "t">>
      [] name = "a" -> <<"a">>
      [] name = "lib" -> <<"l", "i", "b">>
      [] name = "Lib" -> <<"L", "i", "b">>
      [] name = ".env" -> <<".", "e", "n", "v">>
      [] name = "node_modules" -> <<"n", "o", "d", "e", "_", "m", "o", "d", "u", "l", "e", "s">>

IsUpper(ch) == \E k \in 1..Len(UpperCase) : UpperCase[k] = ch
IsLetter(ch) == IsUpper(ch) \/ \E k \in 1..Len(LowerCase) : LowerCase[k] = ch
LetterIndex(ch) ==
    CHOOSE k \in 1..Len(LowerCase) : LowerCase[k] = ch \/ UpperCase[k] = ch

\* The characters of the names in the order of their UTF-16 code units.
CodeUnitOrder == <<".">> \o UpperCase \o <<"_">> \o LowerCase
CodeUnit(ch) == CHOOSE k \in 1..Len(CodeUnitOrder) : CodeUnitOrder[k] = ch

\* The collation String.prototype.localeCompare applies (the root collation
\* of the host's ICU): punctuation before letters; letters by the alphabet
\* whatever their case; on a tie of the whole string a lower-case letter
\* before its upper-case form.
Punctuation == <<"_", ".">>
PrimaryWeight(ch) ==
    IF IsLetter(ch) THEN Len(Punctuation) + LetterIndex(ch)
    ELSE CHOOSE k \in 1..Len(Punctuation) : Punctuation[k] = ch
TertiaryWeight(ch) == IF IsUpper(ch) THEN 1 ELSE 0

\* Sequences of numbers, compared element by element; a proper prefix is
\* smaller. The result is negative, zero or positive.
RECURSIVE CompareSeq(_, _)
CompareSeq(a, b) ==
    IF a = <<>> THEN (IF b = <<>> THEN 0 ELSE -1)
    ELSE IF b = <<>> THEN 1
    ELSE IF Head(a) < Head(b) THEN -1
    ELSE IF Head(a) > Head(b) THEN 1
    ELSE CompareSeq(Tail(a), Tail(b))

\* The order of two names by code units.
CodeUnitCompare(x, y) ==
    CompareSeq([i \in 1..Len(x) |-> CodeUnit(x[i])], [i \in 1..Len(y) |-> CodeUnit(y[i])])

\* x.localeCompare(y).
LocaleCompare(x, y) ==
    LET primary == CompareSeq([i \in 1..Len(x) |-> PrimaryWeight(x[i])],
                              [i \in 1..Len(y) |-> PrimaryWeight(y[i])])
    IN  IF primary # 0 THEN primary
        ELSE CompareSeq([i \in 1..Len(x) |-> TertiaryWeight(x[i])],
                        [i \in 1..Len(y) |-> TertiaryWeight(y[i])])

\* item === 'node_modules' || item.startsWith('.').
Skipped(item) == item = "node_modules" \/ Head(Chars(item)) = "."

\* The entry pushed for a child of dir once fs.stat has told its kind.
StructureEntry(fs, dir, item) ==
    [name |-> item, path |-> item,
     type |-> IF IsDirectory(fs, dir \o <<item>>) THEN "directory" ELSE "file"]

\* The comparator of structure.sort.
CompareEntries(a, b) ==
    IF a.type = "directory" /\ b.type # "directory" THEN -1
    ELSE IF a.type # "directory" /\ b.type = "directory" THEN 1
    ELSE LocaleCompare(Chars(a.name), Chars(b.name))

\* The listing as it was filled, without the sort.
KeepOrder(entries) == entries

\* structure.sort(comparator): a stable sort, element by element.
RECURSIVE InsertEntry(_, _)
InsertEntry(sorted, e) ==
    IF sorted = <<>> THEN <<e>>
    ELSE IF CompareEntries(e, Head(sorted)) < 0 THEN <<e>> \o sorted
    ELSE <<Head(sorted)>> \o InsertEntry(Tail(sorted), e)
RECURSIVE SortFrom(_, _)
SortFrom(entries, sorted) ==
    IF entries = <<>> THEN sorted
    ELSE SortFrom(Tail(entries), InsertEntry(sorted, Head(entries)))
StructureSort(entries) == SortFrom(entries, <<>>)

\* getDirectoryStructure(dir) when fs.readdir returns items: a missing dir is
\* made and the listing is empty; otherwise the children that are not skipped,
\* sorted.
GetDirectoryStructure(fs, dir, items) ==
    IF ~ExistsSync(fs, dir) THEN <<>>
    ELSE LET kept == SelectSeq(items, LAMBDA item : ~Skipped(item))
         IN  StructureSort([i \in 1..Len(kept) |-> StructureEntry(fs, dir, kept[i])])

\* The orders in which fs.readdir may return the names of S.
Enumerations(S) ==
    {f \in [1..Cardinality(S) -> S] : \A i, j \in 1..Cardinality(S) : f[i] = f[j] => i = j}

\* GET /bot/:id/files: the listing of the bot directory.
ListFiles(w) ==
    /\ \E items \in Enumerations(ReaddirNames(fsFiles, BotDir(w))) :
          structure' = GetDirectoryStructure(fsFiles, BotDir(w), items)
    /\ UNCHANGED <<supervisorVars, now, fsFiles, brokerVars, host, removedBots, createVars>>

\* Most children of the bot directory in the listed sandboxes.
MaxEntries == 3
\* What a bot directory may hold: files, directories (each with a file in
\* it), a hidden file and node_modules.
ListPaths == {<<"b.txt">>, <<"a.txt">>, <<"B.txt">>, <<"a", "x.js">>, <<"lib", "x.js">>,
              <<"Lib", "x.js">>, <<".env">>, <<"node_modules", "x.js">>}
ListSandboxes ==
    {[p \in {BotDir("b1") \o q : q \in S} |-> "c0"] :
        S \in {T \in SUBSET ListPaths : Cardinality(T) <= MaxEntries}}

InitList ==
    /\ InitSupervisor
    /\ InitBroker
    /\ InitPlatform
    /\ fsFiles \in ListSandboxes

NextList == \E w \in Workloads : ListFiles(w)

SpecList == InitList /\ [][NextList]_vars

----------------------------------------------------------------------------
(* The create route. *)

limits == [free |-> 1, premium |-> 5, ultimate |-> 10]
\* getBotLimit(tier): limits[tier] || 1.
GetBotLimit(tier) == IF tier \in DOMAIN limits THEN limits[tier] ELSE 1

\* Bot.countDocuments({owner}).
CountDocuments(owner) ==
    Cardinality({w \in Workloads \ removedBots : BotOwner(w) = owner})
        + Cardinality({i \in 1..Len(botDocs) : botDocs[i].owner = owner})

\* path.join(__dirname, 'bots', userId, botName).
NewBotDir(owner, name) == PathJoin(<<"bots", owner>>, <<name>>)

\* Create requests are numbered in their order of arrival.
Submitted(c) == \A q \in 1..(c - 1) : creates[q].pc # "idle"

\* POST /bot/create arrives: without a name the route answers failure, with
\* one Bot.countDocuments is issued.
CreateRequest(c, owner, tier, name, payload) ==
    /\ creates[c].pc = "idle" /\ Submitted(c)
    /\ creates' = [creates EXCEPT ![c] =
                      [pc |-> IF name = "" THEN "done" ELSE "counting",
                       owner |-> owner, tier |-> tier, name |-> name,
                       payload |-> payload,
                       res |-> IF name = "" THEN "noname" ELSE "none"]]
    /\ UNCHANGED <<supervisorVars, now, fsFiles, brokerVars, host, removedBots,
                   botDocs, dirs, structure>>

\* CreateCounted without the comparison with the limit.
CreateCountedNoLimit(c) ==
    /\ creates[c].pc = "counting"
    /\ creates' = [creates EXCEPT ![c].pc = "ensuring"]
    /\ UNCHANGED <<supervisorVars, now, fsFiles, brokerVars, host, removedBots,
                   botDocs, dirs, structure>>

\* The count returns: at or over the limit the route answers failure, under
\* it fs.ensureDir(botDir) is issued.
CreateCounted(c) ==
    /\ creates[c].pc = "counting"
    /\ LET userBots == CountDocuments(creates[c].owner)
           botLimit == GetBotLimit(creates[c].tier)
       IN  IF userBots >= botLimit
           THEN creates' = [creates EXCEPT ![c].pc = "done", ![c].res = "limit"]
           ELSE creates' = [creates EXCEPT ![c].pc = "ensuring"]
    /\ UNCHANGED <<supervisorVars, now, fsFiles, brokerVars, host, removedBots,
                   botDocs, dirs, structure>>

\* fs.ensureDir returns. With neither a file nor code the route answers
\* failure; otherwise the writes of the bot's files are issued.
CreateDirMade(c) ==
    /\ creates[c].pc = "ensuring"
    /\ dirs' = dirs \cup {NewBotDir(creates[c].owner, creates[c].name)}
    /\ IF creates[c].payload = "none"
       THEN creates' = [creates EXCEPT ![c].pc = "done", ![c].res = "nopayload"]
       ELSE creates' = [creates EXCEPT ![c].pc = "writing"]
    /\ UNCHANGED <<supervisorVars, now, fsFiles, brokerVars, host, removedBots,
                   botDocs, structure>>

\* The code (as index.js) or the uploaded file (under its own name), then
\* package.json, are written; the Bot is constructed and its save is issued.
CreateFilesWritten(c) ==
    /\ creates[c].pc = "writing"
    /\ LET botDir == NewBotDir(creates[c].owner, creates[c].name)
           script == IF creates[c].payload = "code" THEN "index.js" ELSE "a.js"
           written == {botDir \o <<script>>, botDir \o <<"package.json">>}
       IN  fsFiles' = [f \in DOMAIN fsFiles \cup written |->
                          IF f \in written THEN "c1" ELSE fsFiles[f]]
    /\ creates' = [creates EXCEPT ![c].pc = "saving"]
    /\ UNCHANGED <<supervisorVars, now, brokerVars, host, removedBots,
                   botDocs, dirs, structure>>

\* bot.save() completes and the route answers success.
CreateSaved(c) ==
    /\ creates[c].pc = "saving"
    /\ botDocs' = Append(botDocs,
                     [name |-> creates[c].name, owner |-> creates[c].owner,
                      path |-> NewBotDir(creates[c].owner, creates[c].name),
                      status |-> "stopped"])
    /\ creates' = [creates EXCEPT ![c].pc = "done", ![c].res = "created"]
    /\ UNCHANGED <<supervisorVars, now, fsFiles, brokerVars, host, removedBots,
                   dirs, structure>>

InitCreate ==
    /\ InitSupervisor
    /\ InitBroker
    /\ InitPlatform
    /\ fsFiles = SandboxInline("b1")

NextCreate ==
    \/ \E c \in Creates, owner \in Owners, tier \in Tiers, name \in BotNames,
          payload \in Payloads : CreateRequest(c, owner, tier, name, payload)
    \/ \E c \in Creates : CreateCounted(c)
    \/ \E c \in Creates : CreateDirMade(c)
    \/ \E c \in Creates : CreateFilesWritten(c)
    \/ \E c \in Creates : CreateSaved(c)

SpecCreate == InitCreate /\ [][NextCreate]_vars

----------------------------------------------------------------------------
(* Properties of the supervisor, checked under Spec. *)

LiveProcs(w) == {p \in Reqs : procs[p].state = "live" /\ reqs[p].w = w}
OthersIdle(S) == \A r \in Reqs \ S : reqs[r].pc = "idle"

\* C1: under concurrent start requests on one workload (no stop is involved),
\* at most one process is live for the workload, and every live process is
\* the one the handle table refers to.
C1_OneProcessUnderConcurrentStart ==
    (\A r \in Reqs : reqs[r].kind # "stop") =>
        \A w \in Workloads :
            /\ Cardinality(LiveProcs(w)) <= 1
            /\ \A p \in LiveProcs(w) : botProcesses[w] = p

\* The stop request r and the 'close' observer of process p have both finished.
BothFinished(p, r) ==
    /\ reqs[p].kind = "start" /\ procs[p].state = "closed" /\ p \notin pendingClose
    /\ reqs[r].kind = "stop" /\ reqs[r].pc = "done" /\ reqs[r].w = reqs[p].w

C7_CloseObserverPersistsStopTime ==
    [][ \A p \in Reqs :
          (p \in pendingClose /\ p \notin pendingClose')
          => /\ bots'[reqs[p].w].status = "stopped"
             /\ bots'[reqs[p].w].lastStopped >= reqs[p].stamp
      ]_vars

\* C8: a process was started, exited on its own, nothing else was requested,
\* and every write has completed: the persisted status is stopped and the
\* workload has no handle.
C8_StoppedAfterNaturalExit ==
    \A p \in Reqs :
        (reqs[p].kind = "start" /\ reqs[p].pc = "done" /\ procs[p].state = "closed"
            /\ pendingClose = {} /\ OthersIdle({p}))
        => (bots[reqs[p].w].status = "stopped" /\ botProcesses[reqs[p].w] = NoProc)

\* The step of stop request r that finds a handle.
StopFindsHandle(r) ==
    reqs[r].kind = "stop" /\ reqs[r].pc = "found" /\ reqs'[r].pc # "found"
        /\ botProcesses[reqs[r].w] # NoProc
\* The step in which stop request r, which found a handle, answers.
StopReturns(r) ==
    reqs[r].kind = "stop" /\ reqs[r].pc = "saving" /\ reqs'[r].pc = "done"
        /\ reqs[r].target # NoProc

\* The effect of stop up to its answer, common to C9 as stated and as amended.
StopEffect(r) ==
    /\ StopFindsHandle(r) =>
          LET p == botProcesses[reqs[r].w]
          IN  /\ procs' = [procs EXCEPT ![p].sigterm = @ + 1]
              /\ botProcesses'[reqs[r].w] = NoProc
              /\ reqs'[r].stamp = now
    /\ StopReturns(r) =>
          /\ reqs'[r].res = "stopped"
          /\ bots'[reqs[r].w].status = "stopped"
          /\ bots'[reqs[r].w].lastStopped = reqs[r].stamp

C10_StartWithHandleIsNoop ==
    /\ [][ \A r \in Reqs :
             (reqs[r].kind = "start" /\ reqs[r].pc = "found" /\ reqs'[r].pc # "found"
                 /\ botProcesses[reqs[r].w] # NoProc)
             => /\ reqs'[r].pc = "done" /\ reqs'[r].res = "already"
                /\ procs' = procs /\ botProcesses' = botProcesses /\ bots' = bots
         ]_vars
    /\ [](\A r \in Reqs : reqs[r].res = "already" =>
             (procs[r].state = "none" /\ reqs[r].stamp = 0))

\* C10 witness: a start request was answered as already running.
C10_Witness == \E r \in Reqs : reqs[r].pc = "done" /\ reqs[r].res = "already"

\* The step in which stop request r looks up the table and finds no handle.
StopFindsNoHandle(r) ==
    reqs[r].kind = "stop" /\ reqs[r].pc = "found" /\ reqs'[r].pc # "found"
        /\ botProcesses[reqs[r].w] = NoProc

\* C11: a stop request on a registered bot that finds no handle (the bot was
\* never started, was stopped already, or its process has exited) signals
\* nothing, goes on to save the record, and answers success, never a failure.
C11_StopWithoutHandleSucceeds ==
    /\ [][ \A r \in Reqs :
             StopFindsNoHandle(r)
             => (reqs'[r].pc = "saving" /\ reqs'[r].target = NoProc /\ procs' = procs)
         ]_vars
    /\ [](\A r \in Reqs :
             (reqs[r].kind = "stop" /\ reqs[r].target = NoProc)
             => /\ reqs[r].res \in {"none", "stopped"}
                /\ reqs[r].pc = "done" => reqs[r].res = "stopped")

\* C11 witness: stop answered success on a bot that was never started, and
\* again after that stop and after a process of the bot had exited and its
\* observer had run.
C11_Witness ==
    /\ reqs[1].kind = "stop" /\ reqs[1].res = "stopped" /\ reqs[1].target = NoProc
    /\ reqs[2].kind = "start" /\ procs[2].state = "closed"
    /\ reqs[3].kind = "stop" /\ reqs[3].res = "stopped" /\ reqs[3].target = NoProc

\* Process p was stopped by a stop request that has returned, and the table
\* holds a live process of a start of the same bot that arrived after the stop.
StoppedAndReplaced(p) ==
    /\ procs[p].sigterm > 0
    /\ \E s \in Reqs : /\ reqs[s].kind = "stop" /\ reqs[s].target = p
                       /\ reqs[s].pc = "done"
                       /\ botProcesses[reqs[p].w] > s
    /\ botProcesses[reqs[p].w] \notin {NoProc, p}
    /\ procs[botProcesses[reqs[p].w]].state = "live"

\* C21: the 'close' observer of a process removes only the handle of that
\* process: after stop, start and then the late 'close' of the stopped process,
\* the handle of the second process is still in the table, and the update of
\* the observer leaves the status of the bot at running.
C21_ObserverRemovesOwnHandleOnly ==
    [][ \A p \in Reqs :
          /\ (procs[p].state = "exited" /\ procs'[p].state = "closed"
                 /\ StoppedAndReplaced(p))
             => botProcesses' = botProcesses
          /\ (p \in pendingClose /\ p \notin pendingClose'
                 /\ StoppedAndReplaced(p)
                 /\ bots[reqs[p].w].status = "running")
             => bots'[reqs[p].w].status = "running"
      ]_vars

\* No request is in flight, no write is on its way to the collection, and
\* every process that exited has had its 'close' observer run.
Quiescent ==
    /\ \A r \in Reqs : reqs[r].pc \in {"idle", "done"}
    /\ pendingClose = {}
    /\ \A p \in Reqs : procs[p].state # "exited"

\* C20: in every quiescent state the persisted status of a bot is running
\* exactly when the table holds a handle for it whose process is live.
C20_StatusMatchesHandleWhenQuiescent ==
    Quiescent =>
        \A w \in Workloads :
            bots[w].status = "running"
            <=> (botProcesses[w] # NoProc /\ procs[botProcesses[w]].state = "live")

\* A stop request found no handle, a start request arrived after it, and the
\* save of the stop landed last: the record says stopped while the process of
\* the start is live and in the table.
StoppedWhileRunning ==
    /\ Quiescent
    /\ reqs[1].kind = "stop" /\ reqs[1].target = NoProc
    /\ reqs[2].kind = "start" /\ reqs[2].res = "started" /\ reqs[3].pc = "idle"
    /\ botProcesses["b1"] = 2 /\ procs[2].state = "live"
    /\ bots["b1"].status = "stopped"

----------------------------------------------------------------------------
(* Properties of the server process, checked under SpecHost. *)

\* The processes that the table refers to.
Handles == {botProcesses[w] : w \in DOMAIN botProcesses} \ {NoProc}

\* C15: the SIGTERM handler signals every process in the table in the step
\* in which the server exits, and a server that has shut down left no process
\* of the table unsignalled.
C15_ShutdownSignalsEveryHandle ==
    /\ [][ (host = "up" /\ host' = "stopped")
           => /\ \A p \in Handles : procs'[p].sigterm = procs[p].sigterm + 1
              /\ botProcesses' = botProcesses
         ]_vars
    /\ [](host = "stopped" => \A p \in Handles : procs[p].sigterm >= 1)

\* C15 witness: the server shut down with a live process for each of the two
\* bots, each signalled once.
C15_Witness ==
    /\ host = "stopped"
    /\ Cardinality(Handles) = 2
    /\ \A p \in Handles : procs[p].state = "live" /\ procs[p].sigterm = 1

\* C16: a start request whose spawn failed has answered failure, its process
\* is not in the table, it assigned no status, and the server is still up.
C16_SpawnFailureSurfaced ==
    \A r \in Reqs :
        procs[r].state = "failed"
        => /\ reqs[r].pc = "done" /\ reqs[r].res = "error"
           /\ botProcesses[reqs[r].w] # r
           /\ reqs[r].stamp = 0
           /\ host = "up"

----------------------------------------------------------------------------
(* Properties of the delete route, checked under SpecDelete. *)

\* C19: a delete request signals the process of the bot and removes its
\* handle before it touches the files; when fs.remove fails the request goes
\* on to delete the record, and when it answers it answers success, the
\* record is gone, and the process it found was signalled and is not in the
\* table.
C19_DeleteSurvivesFsError ==
    /\ [][ \A r \in Reqs :
             /\ (reqs[r].kind = "delete" /\ reqs[r].pc = "found" /\ reqs'[r].pc # "found"
                    /\ botProcesses[reqs[r].w] # NoProc)
                => /\ procs' = Kill(procs, botProcesses[reqs[r].w])
                   /\ botProcesses'[reqs[r].w] = NoProc
                   /\ reqs'[r].target = botProcesses[reqs[r].w]
             /\ (reqs[r].pc = "removing" /\ reqs'[r].pc # "removing" /\ reqs'[r].fsError)
                => (reqs'[r].pc = "deleting" /\ removedBots' = removedBots)
         ]_vars
    /\ [](\A r \in Reqs :
             (reqs[r].kind = "delete" /\ reqs[r].fsError /\ reqs[r].pc = "done")
             => /\ reqs[r].res = "deleted"
                /\ ~Registered(reqs[r].w)
                /\ reqs[r].target # NoProc
                   => /\ procs[reqs[r].target].sigterm >= 1
                      /\ botProcesses[reqs[r].w] # reqs[r].target)

\* C19 witness: a delete request on a running bot whose fs.remove failed has
\* answered: the files are still there, the record is gone, the process was
\* signalled and the table is empty.
C19_Witness ==
    \E r \in Reqs :
        /\ reqs[r].kind = "delete" /\ reqs[r].pc = "done" /\ reqs[r].fsError
        /\ reqs[r].target # NoProc /\ procs[reqs[r].target].sigterm = 1
        /\ botProcesses[reqs[r].w] = NoProc
        /\ ~Registered(reqs[r].w)
        /\ fsFiles = SandboxInline("b1")

\* A delete request on w has answered success.
DeleteReturned(w) ==
    \E r \in Reqs : /\ reqs[r].kind = "delete" /\ reqs[r].w = w
                    /\ reqs[r].pc = "done" /\ reqs[r].res = "deleted"

\* C22: once a delete request on a bot has answered success the table holds
\* no handle for the bot and no process of the bot is running that was not
\* sent SIGTERM, also when a start request for the bot was past its handle
\* check while the delete ran.
C22_NoProcessAfterDelete ==
    \A w \in Workloads :
        DeleteReturned(w)
        => /\ botProcesses[w] = NoProc
           /\ \A p \in Reqs : ~(reqs[p].w = w /\ procs[p].state = "live"
                                   /\ procs[p].sigterm = 0)

----------------------------------------------------------------------------
(* Properties of the entry file, checked under SpecEntry. *)

\* The .js files at the root of dir.
JsNames(fs, dir) == {n \in ReaddirNames(fs, dir) : EndsWithJs(n)}
\* The conventional entry files that exist at the root of dir, by their place
\* in the fixed list.
ListedPresent(fs, dir) ==
    {i \in 1..Len(possibleFiles) : dir \o <<possibleFiles[i]>> \in DOMAIN fs}

\* C18: a start request that resolved an entry file resolved the first
\* conventional name that exists at the root of the bot directory or, when
\* none exists, the .js file at the root whose name is first in lexicographic
\* order; a start request on a directory with no .js file at its root answers
\* that there is no entry file, owns no process, registered nothing and
\* assigned no status.
C18_EntryFileResolution ==
    \A r \in Reqs :
        LET dir == BotDir(reqs[r].w)
            listed == ListedPresent(fsFiles, dir)
            js == JsNames(fsFiles, dir)
        IN  /\ (reqs[r].main # <<>> /\ listed # {})
               => \A i \in listed : reqs[r].main = dir \o <<possibleFiles[i]>> => 
                      \A j \in listed : i <= j
            /\ (reqs[r].main # <<>> /\ listed = {})
               => \E n \in js :
                      /\ reqs[r].main = dir \o <<n>>
                      /\ \A m \in js : CodeUnitCompare(Chars(n), Chars(m)) <= 0
            /\ reqs[r].main # <<>> => reqs[r].main \in DOMAIN fsFiles
            /\ (reqs[r].kind = "start" /\ reqs[r].pc \in {"saving", "done"}
                    /\ reqs[r].res # "already" /\ js = {})
               => /\ reqs[r].pc = "done" /\ reqs[r].res = "nomain"
                  /\ procs[r].state = "none" /\ reqs[r].target = NoProc
                  /\ reqs[r].stamp = 0 /\ botProcesses[reqs[r].w] # r

----------------------------------------------------------------------------
(* Properties of the directory listing, checked under SpecList. *)

\* The listing is empty (nothing was listed yet, or nothing is shown), or it
\* names each shown child of the bot directory.
ListsShownChildren ==
    \/ structure = <<>>
    \/ {structure[i].name : i \in 1..Len(structure)}
           = {n \in ReaddirNames(fsFiles, BotDir("b1")) : ~Skipped(n)}

----------------------------------------------------------------------------
(* Properties of the create route, checked under SpecCreate. *)

\* The step in which the count of create request c returns.
CountReturns(c) == creates[c].pc = "counting" /\ creates'[c].pc # "counting"

\* C14: the free tier allows one bot; a create request whose owner holds, when
\* the bots are counted, as many bots as the tier of the session allows is
\* answered with the limit failure in that step, it makes no directory, writes
\* no file and inserts no record, and it takes no further step.
C14_CreateAtQuotaRejected ==
    /\ [][ \A c \in Creates :
             (CountReturns(c)
                 /\ CountDocuments(creates[c].owner) >= GetBotLimit(creates[c].tier))
             => /\ creates'[c].pc = "done" /\ creates'[c].res = "limit"
                /\ dirs' = dirs /\ fsFiles' = fsFiles /\ botDocs' = botDocs
         ]_vars
    /\ [](/\ GetBotLimit("free") = 1
          /\ \A c \in Creates : creates[c].res = "limit" => creates[c].pc = "done")

\* C14 witness: a free-tier user created a bot, asked for a second one and was
\* refused; the only directory and the only inserted record are the first bot's.
C14_Witness ==
    \E c \in Creates :
        /\ creates[c].res = "limit" /\ creates[c].tier = "free"
        /\ creates[c].owner = "u2" /\ creates[c].name = "b2"
        /\ Len(botDocs) = 1 /\ botDocs[1].owner = "u2" /\ botDocs[1].name = "b1"
        /\ dirs = {NewBotDir("u2", "b1")}

\* Every create request of the owner so far came from a session of this tier.
SessionsOfTier(owner, tier) ==
    \A c \in Creates :
        (creates[c].pc # "idle" /\ creates[c].owner = owner) => creates[c].tier = tier

\* C23: at every moment an owner whose sessions carry one tier has at most as
\* many bots in the collection as that tier allows, also when create requests
\* of the owner interleave between the count and the save.
C23_RecordsWithinTierLimit ==
    \A owner \in Owners, tier \in Tiers :
        SessionsOfTier(owner, tier) => CountDocuments(owner) <= GetBotLimit(tier)

\* The bot directories of the records in the collection: those of the bots
\* registered from the start and those of the created bots.
RecordPaths ==
    [w \in Workloads \ removedBots |-> BotDir(w)]
RecordsAt(path) ==
    Cardinality({w \in DOMAIN RecordPaths : RecordPaths[w] = path})
        + Cardinality({i \in 1..Len(botDocs) : botDocs[i].path = path})

\* C25: no two records of the collection have the same bot directory, also
\* not two bots that one owner created under the same name.
C25_SandboxRootOfOneWorkload ==
    \A i \in 1..Len(botDocs) : RecordsAt(botDocs[i].path) = 1

----------------------------------------------------------------------------
(* Properties of the login code exchange, checked under SpecAuth and       *)
(* SpecAuthClock.                                                          *)

UnusedCodes(d) ==
    {i \in 1..Len(authSessions) : authSessions[i].discordId = d /\ ~authSessions[i].used}

\* C2: at every moment each Discord user has at most one unused code.
C2_OneUnusedCodePerIdentity ==
    \A d \in Identities : Cardinality(UnusedCodes(d)) <= 1

SuccessfulRedeems(i) ==
    {o \in AuthOps : ops[o].kind = "redeem" /\ ops[o].res = "ok" /\ ops[o].doc = i}

\* C3: an issued code opens at most one session, however the login requests
\* for it interleave.
C3_CodeRedeemedAtMostOnce ==
    \A i \in 1..Len(authSessions) : Cardinality(SuccessfulRedeems(i)) <= 1

\* C4: no login succeeds with a code that was issued more than TTL minutes
\* before the login request.
C4_ExpiredCodeRejected ==
    \A o \in AuthOps :
        (ops[o].kind = "redeem" /\ ops[o].res = "ok")
        => ops[o].at - authSessions[ops[o].doc].createdAt <= TTL

\* AuthSessions i and j hold two codes that user d was issued in turn: the
\* command that inserted j ran after the command that inserted i had answered.
\* The codes differ, and no other AuthSession carries either string.
IssuedInTurn(d, i, j) ==
    /\ \E o1 \in AuthOps, o2 \in AuthOps :
          /\ ops[o1].kind = "issue" /\ ops[o1].d = d /\ ops[o1].doc = i
          /\ ops[o2].kind = "issue" /\ ops[o2].d = d /\ ops[o2].doc = j
          /\ ops[o2].seen >= i
    /\ authSessions[i].code # authSessions[j].code
    /\ \A k \in 1..Len(authSessions) \ {i, j} :
          authSessions[k].code \notin {authSessions[i].code, authSessions[j].code}

\* Nothing has happened to the code of AuthSession j since it was issued: no
\* later command of its user, no login request that found it.
Fresh(j) ==
    /\ \A o \in AuthOps :
          (ops[o].kind = "issue" /\ ops[o].d = authSessions[j].discordId)
          => ops[o].seen < j
    /\ \A o \in AuthOps : ops[o].kind = "redeem" => ops[o].doc # j

\* The step in which the login request o arrives and looks up its code.
RedeemArrives(o) == ops[o].pc = "idle" /\ ops'[o].kind = "redeem"

\* C12: after user d was issued code c1 and later code c2, a login with c1
\* finds no AuthSession and is refused, and a login with c2 (not yet used, and
\* d's latest) finds the AuthSession of c2, succeeds, and is bound to d.
C12_SecondCodeInvalidatesFirst ==
    [][ \A o \in AuthOps, d \in Identities :
          \A i \in 1..Len(authSessions), j \in 1..Len(authSessions) :
            IssuedInTurn(d, i, j) =>
              /\ (RedeemArrives(o) /\ ops'[o].code = authSessions[i].code)
                 => (ops'[o].pc = "done" /\ ops'[o].res = "notfound"
                     /\ authSessions' = authSessions)
              /\ (RedeemArrives(o) /\ ops'[o].code = authSessions[j].code /\ Fresh(j))
                 => (ops'[o].pc = "user" /\ ops'[o].doc = j)
              /\ (ops[o].kind = "redeem" /\ ops[o].doc = j /\ ops[o].pc # "done"
                    /\ ops'[o].pc = "done")
                 => (ops'[o].res = "ok" /\ ops'[o].d = d /\ authSessions'[j].used)
      ]_vars

\* C12 witness: two codes issued in turn to one user, and a login with the
\* first that was refused.
C12_Witness ==
    \E d \in Identities, o \in AuthOps :
        /\ Len(authSessions) = 2 /\ IssuedInTurn(d, 1, 2)
        /\ ops[o].kind = "redeem" /\ ops[o].code = authSessions[1].code
        /\ ops[o].res = "notfound"

\* Two codes issued in turn to one user, and a login with the second that
\* succeeded.
SecondCodeRedeemed ==
    \E d \in Identities, o \in AuthOps :
        /\ Len(authSessions) = 2 /\ IssuedInTurn(d, 1, 2)
        /\ ops[o].kind = "redeem" /\ ops[o].doc = 2 /\ ops[o].res = "ok" /\ ops[o].d = d

\* The typed character x is the character y of a code, in either case.
SameLetter(x, y) ==
    x = y \/ \E k \in 1..Len(LowerCase) : LowerCase[k] = x /\ UpperCase[k] = y

\* The input s is the code c with some of its letters in lower case and with
\* spaces before and after it.
TypedAs(s, c) ==
    \E a \in 0..Len(s), b \in 0..Len(s) :
        /\ a + Len(c) + b = Len(s)
        /\ \A k \in 1..a : s[k] = " "
        /\ \A k \in 1..b : s[Len(s) - k + 1] = " "
        /\ \A k \in 1..Len(c) : SameLetter(s[a + k], c[k])

\* C13: a login with an input that is an unused code up to surrounding spaces
\* and letter case looks up the same AuthSessions as a login with the code
\* itself, the code's among them; a login that succeeded on such an input has
\* marked the AuthSession of that code used and is bound to its user.
C13_RedeemNormalizesInput ==
    /\ \A i \in 1..Len(authSessions), s \in LoginInputs :
          (~authSessions[i].used /\ TypedAs(s, authSessions[i].code))
          => /\ FindUnused(CleanCode(s)) = FindUnused(CleanCode(authSessions[i].code))
             /\ i \in FindUnused(CleanCode(s))
    /\ \A o \in AuthOps :
          (ops[o].kind = "redeem" /\ ops[o].doc # 0)
          => /\ TypedAs(ops[o].input, authSessions[ops[o].doc].code)
             /\ ops[o].res = "ok"
                => /\ authSessions[ops[o].doc].used
                   /\ ops[o].d = authSessions[ops[o].doc].discordId

\* C13 witness: a login succeeded on an input that is not the code as issued.
C13_Witness ==
    \E o \in AuthOps :
        /\ ops[o].kind = "redeem" /\ ops[o].res = "ok"
        /\ ops[o].input # authSessions[ops[o].doc].code
        /\ authSessions[ops[o].doc].used

\* The User documents of Discord user d.
UsersOf(d) == {u \in 1..Len(users) : users[u].discordId = d}

\* C24: at every moment the collection holds at most one User per Discord id,
\* also when login requests on codes of one Discord user, or on one code, run
\* at the same time.
C24_OneUserPerIdentity ==
    \A d \in Identities : Cardinality(UsersOf(d)) <= 1

\* C26: at every moment no two unused AuthSessions carry the same code, so
\* that a login on a code is bound to the Discord user the code was sent to.
\* Checked for the AuthSessions of different Discord users (two unused codes
\* of one user are C2's subject).
C26_UnusedCodesDistinct ==
    \A i, j \in 1..Len(authSessions) :
        (/\ authSessions[i].discordId # authSessions[j].discordId
         /\ ~authSessions[i].used /\ ~authSessions[j].used)
        => authSessions[i].code # authSessions[j].code

----------------------------------------------------------------------------
(* Properties of the sessions, checked under SpecSession. *)

\* The step in which request r arrives, in a session of a user who does not
\* own the bot it names.
ForeignArrival(r) ==
    /\ reqs[r].pc = "idle" /\ reqs'[r].pc # "idle"
    /\ reqs'[r].session # BotOwner(reqs'[r].w)

\* C27: a start, stop, delete or file request in the session of a user on the
\* bot of another user is answered not found in the step in which it arrives
\* and takes no further step; that step leaves the table, the processes, the
\* record of the bot and the files as they were and returns no file content.
C27_TenantIsolation ==
    /\ [][ \A r \in SessionReqs :
             ForeignArrival(r)
             => /\ reqs'[r].pc = "done" /\ reqs'[r].res = "notfound"
                /\ botProcesses' = botProcesses /\ procs' = procs
                /\ bots' = bots /\ removedBots' = removedBots
                /\ pendingClose' = pendingClose
                /\ fsFiles' = fsFiles /\ fileRes' = fileRes
         ]_vars
    /\ [](\A r \in SessionReqs :
             reqs[r].session # BotOwner(reqs[r].w)
             => (reqs[r].pc = "done" /\ reqs[r].res = "notfound"))

\* C27 witness: u2 asked to stop the running bot of u1 and was answered not
\* found; the process is in the table, live and unsignalled, and the record
\* is in the collection.
C27_Witness ==
    \E r \in SessionReqs :
        /\ reqs[r].session = "u2" /\ reqs[r].kind = "stop" /\ reqs[r].res = "notfound"
        /\ BotOwner(reqs[r].w) = "u1" /\ Registered(reqs[r].w)
        /\ botProcesses[reqs[r].w] # NoProc
        /\ procs[botProcesses[reqs[r].w]].state = "live"
        /\ procs[botProcesses[reqs[r].w]].sigterm = 0

----------------------------------------------------------------------------
(* Properties of the file routes, checked under SpecFile. *)

Escapes(w, path) == ~IsPrefix(BotDir(w), path)

\* C5: a file request whose path resolves outside the bot directory is
\* refused (the claim asks for a validation error; here any answer but success
\* counts as a refusal) and returns no content, and the files outside the bot
\* directory stay as they were.
C5_EscapingPathRejected ==
    /\ (fileRes.op # "none" /\ Escapes("b1", fileRes.path))
       => (fileRes.outcome # "ok" /\ fileRes.content = "none")
    /\ \A p \in DOMAIN fsFiles \cup DOMAIN SandboxWithOutside("b1") :
          Escapes("b1", p)
          => /\ p \in DOMAIN fsFiles /\ p \in DOMAIN SandboxWithOutside("b1")
             /\ fsFiles[p] = SandboxWithOutside("b1")[p]

====
